---- MODULE Spec2Model ----
(***************************************************************************)
(* A model of "final project/main_pro.py": the Streamlit resume form that  *)
(* extracts a Profile from an uploaded PDF/DOCX, saves it to                *)
(* resume_output.csv keyed by email_id (with an overwrite/cancel dialog)    *)
(* and filters the saved rows by skill on a second tab.                     *)
(*                                                                         *)
(* The CSV file is modelled as text: a row is a record of cell texts, and  *)
(* pandas' read_csv / to_csv are modelled by what they do to a cell (an     *)
(* empty cell reads as NaN, an all-numeric column is read as numbers and    *)
(* written back as numbers).  Of the seventeen columns the model keeps     *)
(* fullname, email_id, phone_number and skills: the other scalar columns   *)
(* are written and read like fullname and phone_number, the other list     *)
(* columns are written like skills and never read by the program.          *)
(***************************************************************************)
EXTENDS Naturals, Sequences, FiniteSets, TLC

VARIABLES
    uploaded_file,   \* st.file_uploader's value: <<>> or <<name>>
    pc,              \* position of the running Convert script run
    tmp_files,       \* temporary upload files present on disk
    resume_text,     \* text returned by load_resume_text in this run
    session,         \* st.session_state["resume_data"]: <<>> or <<data>>
    displayed,       \* profile rendered on the page: <<>> or <<data>>
    msg,             \* the st.error / st.success / st.warning of the last run
    uncaught,        \* exception that ended the last script run, or "none"
    llm_called,      \* structured_llm.invoke was called in the last Convert
    last_click,      \* widget whose interaction started the last run
    csv,             \* resume_output.csv: [exists, rows]
    dialog,          \* open "Duplicate Email Found" dialog: <<>> or <<[email, data]>>
    selected_skills, \* value of the tab2 multiselect
    tab2             \* what tab2 rendered in the last run

vars == <<uploaded_file, pc, tmp_files, resume_text, session, displayed, msg,
          uncaught, llm_called, last_click, csv, dialog, selected_skills, tab2>>

(***************************************************************************)
(* Bounds of the model.                                                     *)
(***************************************************************************)
MaxRows == 2        \* rows the save handler may append to the file
MaxPages == 2       \* pages a loader returns for one document
MaxTableRows == 3   \* rows of a table found on disk at start-up

(***************************************************************************)
(* Python values of the scalar fields: None, or a string.  After read_csv a *)
(* cell is NaN, a string, an int or a float.                                *)
(***************************************************************************)
PyNone == [k |-> "none", v |-> ""]
PyStr(s) == [k |-> "str", v |-> s]
NaN == [k |-> "nan", v |-> ""]
PyInt(s) == [k |-> "int", v |-> s]
PyFloat(s) == [k |-> "float", v |-> s]

Emails == {"a@x.com", "b@x.com"}
\* the cell texts of the model that read_csv parses as integers
IntTexts == {"01234", "1234"}

\* int("01234") = 1234: the value a digit string is read as.
IntValue(t) == IF t = "01234" THEN "1234" ELSE t
\* repr of a float with an integral value: 1234.0
FloatText(v) == v \o ".0"
FloatTexts == {FloatText(IntValue(t)) : t \in IntTexts}
FloatValue(t) == CHOOSE v \in {IntValue(u) : u \in IntTexts} : FloatText(v) = t

(***************************************************************************)
(* Sequence helpers.                                                        *)
(***************************************************************************)
Range(s) == {s[i] : i \in 1..Len(s)}

\* every listing of a finite set without repetition: the orders list({...})
\* can produce, which depend on the process's string hashing
SeqsOf(S) == {s \in [1..Cardinality(S) -> S] : Range(s) = S}

RECURSIVE Concat(_)
Concat(ss) == IF ss = <<>> THEN <<>> ELSE Head(ss) \o Concat(Tail(ss))

(***************************************************************************)
(* to_csv and read_csv on the scalar columns.                               *)
(***************************************************************************)
\* pandas' default na_values that the modelled cells can hit
NaTexts == {"", "NA", "N/A", "null", "None", "nan"}

\* df.to_csv: the text of one cell
ToCsvText(val) ==
    CASE val.k \in {"none", "nan"} -> ""
      [] val.k = "float" -> FloatText(val.v)
      [] OTHER -> val.v

\* pd.read_csv: the values of one column, given its cells' texts.  The dtype
\* is inferred from the whole column: int64 when every cell is an integer,
\* float64 when every non-empty cell is a number, object (str) otherwise.
ReadColumn(texts) ==
    LET idx == 1..Len(texts)
        nonNa == {i \in idx : texts[i] \notin NaTexts}
        allInt == \A i \in nonNa : texts[i] \in IntTexts
        allNum == \A i \in nonNa : texts[i] \in IntTexts \cup FloatTexts
    IN  [i \in idx |->
            IF texts[i] \in NaTexts THEN NaN
            ELSE IF allInt /\ nonNa = idx THEN PyInt(IntValue(texts[i]))
            ELSE IF allNum
                 THEN PyFloat(IF texts[i] \in IntTexts THEN IntValue(texts[i])
                                                      ELSE FloatValue(texts[i]))
            ELSE PyStr(texts[i])]

(***************************************************************************)
(* The text of a skills cell, as a sequence of lexical tokens.              *)
(***************************************************************************)
LB == [t |-> "[", s |-> ""]
RB == [t |-> "]", s |-> ""]
COMMA == [t |-> ",", s |-> ""]
SP == [t |-> " ", s |-> ""]
Q(s) == [t |-> "str", s |-> s]      \* the string literal 's'
W(s) == [t |-> "word", s |-> s]     \* the bare word s

RECURSIVE JoinItems(_)
JoinItems(items) ==
    IF items = <<>> THEN <<>>
    ELSE IF Len(items) = 1 THEN <<Q(items[1])>>
    ELSE <<Q(items[1]), COMMA, SP>> \o JoinItems(Tail(items))

\* str(list) of a list of strings, as to_csv writes a list-valued cell
Repr(items) == <<LB>> \o JoinItems(items) \o <<RB>>

\* read_csv on the skills column: an empty cell is NaN, any other a str
ReadSkillsCell(toks) == IF toks = <<>> THEN NaN ELSE [k |-> "str", v |-> toks]

(***************************************************************************)
(* safe_eval_list: the tolerant parse of a skills cell (tab2).              *)
(***************************************************************************)
IsItem(t) == t.t \in {"str", "word"}
NotSpace(t) == t # SP
NoSp(toks) == SelectSeq(toks, NotSpace)

\* item (, item)* with an optional trailing comma
RECURSIVE IsItemList(_)
IsItemList(ns) ==
    /\ Len(ns) >= 1
    /\ IsItem(ns[1])
    /\ \/ Len(ns) = 1
       \/ /\ ns[2] = COMMA
          /\ \/ Len(ns) = 2
             \/ IsItemList(SubSeq(ns, 3, Len(ns)))

HasWord(ns) == \E i \in 1..Len(ns) : ns[i].t = "word"

\* eval(x) on a cell's text: "list" when the text is a list display of string
\* literals, "nonlist" when it evaluates to a str or a tuple, "raise" when it
\* raises (SyntaxError, or NameError on a bare word)
EvalOutcome(toks) ==
    LET ns == NoSp(toks)
        inner == SubSeq(ns, 2, Len(ns) - 1)
    IN  IF /\ Len(ns) >= 2
           /\ ns[1] = LB
           /\ ns[Len(ns)] = RB
           /\ (inner = <<>> \/ IsItemList(inner))
        THEN IF HasWord(inner) THEN "raise" ELSE "list"
        ELSE IF IsItemList(ns)
        THEN IF HasWord(ns) THEN "raise" ELSE "nonlist"
        ELSE "raise"

\* the value of eval(x) when it is a list
EvalList(toks) ==
    LET ns == NoSp(toks)
        items == SelectSeq(SubSeq(ns, 2, Len(ns) - 1), IsItem)
    IN  [i \in 1..Len(items) |-> items[i].s]

\* str.strip("[]")
RECURSIVE LStripBrackets(_)
LStripBrackets(toks) ==
    IF toks # <<>> /\ Head(toks) \in {LB, RB} THEN LStripBrackets(Tail(toks)) ELSE toks
RECURSIVE RStripBrackets(_)
RStripBrackets(toks) ==
    IF toks # <<>> /\ toks[Len(toks)] \in {LB, RB}
    THEN RStripBrackets(SubSeq(toks, 1, Len(toks) - 1)) ELSE toks
StripBrackets(toks) == RStripBrackets(LStripBrackets(toks))

\* str.strip()
RECURSIVE LStrip(_)
LStrip(toks) == IF toks # <<>> /\ Head(toks) = SP THEN LStrip(Tail(toks)) ELSE toks
RECURSIVE RStrip(_)
RStrip(toks) ==
    IF toks # <<>> /\ toks[Len(toks)] = SP
    THEN RStrip(SubSeq(toks, 1, Len(toks) - 1)) ELSE toks
Strip(toks) == RStrip(LStrip(toks))

\* str.split(",")
RECURSIVE SplitComma(_)
SplitComma(toks) ==
    LET commas == {i \in 1..Len(toks) : toks[i] = COMMA}
    IN  IF commas = {} THEN <<toks>>
        ELSE LET i == CHOOSE j \in commas : \A k \in commas : j <= k
             IN  <<SubSeq(toks, 1, i - 1)>> \o SplitComma(SubSeq(toks, i + 1, Len(toks)))

TokenText(t) ==
    CASE t.t = "str" -> "'" \o t.s \o "'"
      [] t.t = "word" -> t.s
      [] OTHER -> t.t

RECURSIVE PieceText(_)
PieceText(piece) ==
    IF piece = <<>> THEN "" ELSE TokenText(Head(piece)) \o PieceText(Tail(piece))

NotEmpty(piece) == piece # <<>>

\* [v.strip() for v in text.split(",") if v.strip()]
CommaList(toks) ==
    LET pieces == SplitComma(toks)
        stripped == [i \in 1..Len(pieces) |-> Strip(pieces[i])]
        kept == SelectSeq(stripped, NotEmpty)
    IN  [i \in 1..Len(kept) |-> PieceText(kept[i])]

\* a variant that gives up on a cell eval cannot read, instead of splitting it
safe_eval_list_strict(x) ==
    IF x.k = "nan" THEN <<>>
    ELSE CASE EvalOutcome(x.v) = "list" -> EvalList(x.v)
           [] EvalOutcome(x.v) = "nonlist" -> CommaList(x.v)
           [] OTHER -> <<>>

\* safe_eval_list(x) for a cell value read by read_csv (never a list object)
safe_eval_list(x) ==
    IF x.k = "nan" THEN <<>>
    ELSE CASE EvalOutcome(x.v) = "list" -> EvalList(x.v)
           [] EvalOutcome(x.v) = "nonlist" -> CommaList(x.v)
           [] OTHER -> CommaList(StripBrackets(x.v))

(***************************************************************************)
(* The Profile the extraction service returns, and the data dict.           *)
(***************************************************************************)
TechEntry(pl, fw, ot) ==
    [programming_languages |-> pl, libraries_or_frameworks |-> fw, other_tools |-> ot]

\* what the service extracts from three resumes besides the email address: a
\* name, a phone number, the technical skills (one entry with a skill
\* repeated across its lists, several entries, none) and the other lists
ContentAnn ==
    [fullname |-> PyStr("Ann"), phone_number |-> PyStr("01234"),
     technical_skills |-> <<TechEntry(<<"Python">>, <<"Python">>, <<"SQL">>)>>,
     interpersonal_skills |-> <<"Teamwork">>, certifications |-> <<"AWS">>]
ContentBob ==
    [fullname |-> PyStr("Bob"), phone_number |-> PyNone,
     technical_skills |-> <<TechEntry(<<"Python">>, <<>>, <<>>),
                            TechEntry(<<>>, <<"Go">>, <<>>)>>,
     interpersonal_skills |-> <<>>, certifications |-> <<>>]
ContentCy ==
    [fullname |-> PyStr("Cy"), phone_number |-> PyStr("+91 98765"),
     technical_skills |-> <<>>,
     interpersonal_skills |-> <<"Teamwork">>, certifications |-> <<>>]

\* the resumes of the model: each email address with two contents, so that
\* a second resume with the same address carries different data; a resume
\* without an email address gives email_id None
Resumes ==
    { <<PyStr("a@x.com"), ContentAnn>>, <<PyStr("a@x.com"), ContentBob>>,
      <<PyStr("b@x.com"), ContentBob>>, <<PyStr("b@x.com"), ContentCy>>,
      <<PyNone, ContentAnn>>, <<PyNone, ContentCy>> }

\* schema.Profile as the extraction service returns it
Profiles ==
    { [fullname |-> r[2].fullname, email_id |-> r[1],
       phone_number |-> r[2].phone_number,
       technical_skills |-> r[2].technical_skills,
       interpersonal_skills |-> r[2].interpersonal_skills,
       certifications |-> r[2].certifications] : r \in Resumes }

\* lines 173-177: the three lists of the first technical_skills entry
Tech0Lists(p) ==
    IF Len(p.technical_skills) > 0
    THEN LET tech0 == p.technical_skills[1]
         IN  <<tech0.programming_languages, tech0.libraries_or_frameworks,
               tech0.other_tools>>
    ELSE <<<<>>, <<>>, <<>>>>

\* line 261: the set {*prog_langs, *frameworks, *tools}
AllSkillsSet(p) == Range(Concat(Tech0Lists(p)))

\* lines 153-264: response.model_dump() with data["skills"] added; the order
\* of list(set) is any order
DataOf(p) ==
    { [fullname |-> p.fullname, email_id |-> p.email_id,
       phone_number |-> p.phone_number,
       technical_skills |-> p.technical_skills,
       interpersonal_skills |-> p.interpersonal_skills,
       certifications |-> p.certifications,
       skills |-> sk] : sk \in SeqsOf(AllSkillsSet(p)) }

(***************************************************************************)
(* The CSV file and the DataFrame read from it.                             *)
(***************************************************************************)
NoFile == [exists |-> FALSE, rows |-> <<>>]

\* one row as to_csv writes it from a data dict (lines 305-312, 76-78)
RowText(data) ==
    [fullname |-> ToCsvText(data.fullname),
     email_id |-> ToCsvText(data.email_id),
     phone_number |-> ToCsvText(data.phone_number),
     skills |-> Repr(data.skills)]

\* pd.read_csv(CSV_FILE)
ReadCsv(rows) ==
    LET n == Len(rows)
        names == ReadColumn([i \in 1..n |-> rows[i].fullname])
        emails == ReadColumn([i \in 1..n |-> rows[i].email_id])
        phones == ReadColumn([i \in 1..n |-> rows[i].phone_number])
    IN  [i \in 1..n |->
            [fullname |-> names[i], email_id |-> emails[i],
             phone_number |-> phones[i], skills |-> ReadSkillsCell(rows[i].skills)]]

\* df.to_csv(csv_file, index=False) for rows that came from read_csv
ToCsv(df) ==
    [i \in 1..Len(df) |->
        [fullname |-> ToCsvText(df[i].fullname),
         email_id |-> ToCsvText(df[i].email_id),
         phone_number |-> ToCsvText(df[i].phone_number),
         skills |-> IF df[i].skills.k = "nan" THEN <<>> ELSE df[i].skills.v]]

\* df["email_id"] == email, for one cell: NaN and None equal nothing
EmailEq(cell, email) == cell.k = "str" /\ email.k = "str" /\ cell.v = email.v

\* lines 293-295: create the header-only file when absent
EnsureFile(c) == IF c.exists THEN c ELSE [exists |-> TRUE, rows |-> <<>>]

\* a variant whose duplicate check finds nothing
ExistingNone(rows, email) == {}

\* line 300: existing = df[df["email_id"] == email]
Existing(rows, email) ==
    LET df == ReadCsv(rows)
    IN  {i \in 1..Len(df) : EmailEq(df[i].email_id, email)}

\* lines 305-312: append the row to the file
AppendRow(c, data) == [exists |-> TRUE, rows |-> Append(c.rows, RowText(data))]

\* lines 74-78: read, drop the rows of the email, add the new row, rewrite
OverwriteRows(c, email, data) ==
    LET df == ReadCsv(c.rows)
        Keep(r) == ~EmailEq(r.email_id, email)
    IN  [exists |-> TRUE, rows |-> ToCsv(SelectSeq(df, Keep)) \o <<RowText(data)>>]

\* a variant that replaces the stored row of a duplicate without asking
SaveCsvSilent(c, sess) ==
    IF sess = <<>> THEN c
    ELSE IF \E i \in 1..Len(c.rows) : c.rows[i].email_id = ToCsvText(sess[1].email_id)
         THEN OverwriteRows(c, sess[1].email_id, sess[1])
    ELSE [exists |-> TRUE, rows |-> Append(c.rows, RowText(sess[1]))]

\* lines 267-314: the "Save to Database" handler.  The outcome is
\* "no_data", "duplicate" (the dialog is opened) or "saved".
SaveOutcome(c, sess) ==
    IF sess = <<>> THEN "no_data"
    ELSE IF Existing(EnsureFile(c).rows, sess[1].email_id) # {} THEN "duplicate"
    ELSE "saved"

\* lines 267-314: the file the handler leaves
SaveCsv(c, sess) ==
    IF sess = <<>> THEN c
    ELSE IF Existing(EnsureFile(c).rows, sess[1].email_id) # {} THEN EnsureFile(c)
    ELSE AppendRow(EnsureFile(c), sess[1])

(***************************************************************************)
(* tab2: the skill union and the filter (lines 317-351).                    *)
(***************************************************************************)
\* a variant with any() in place of all()
RowMatchesAny(cell, selected) == \E skill \in selected : skill \in Range(safe_eval_list(cell))

\* line 349: all(skill in safe_eval_list(skill_set) for skill in selected_skills)
RowMatches(cell, selected) == \A skill \in selected : skill \in Range(safe_eval_list(cell))

\* lines 341-342: all_skills
AllSkills(df) == UNION {Range(safe_eval_list(df[i].skills)) : i \in 1..Len(df)}

\* lines 346-349: the positions of the rows of filtered_df, in order
RECURSIVE KeptFrom(_, _, _)
KeptFrom(df, selected, i) ==
    IF i > Len(df) THEN <<>>
    ELSE (IF RowMatches(df[i].skills, selected) THEN <<i>> ELSE <<>>)
         \o KeptFrom(df, selected, i + 1)

FilterRows(df, selected) ==
    IF selected = {} THEN [i \in 1..Len(df) |-> i] ELSE KeptFrom(df, selected, 1)

NotRun == [state |-> "not_run", options |-> {}, idx |-> <<>>]

\* the multiselect keeps its value while it is rendered with the same options
SelectedAfter(c, sel, old) ==
    IF c.exists /\ old.state = "table" /\ old.options = AllSkills(ReadCsv(c.rows))
    THEN sel ELSE {}

RenderTab2(c, sel) ==
    IF ~c.exists THEN [state |-> "no_file", options |-> {}, idx |-> <<>>]
    ELSE LET df == ReadCsv(c.rows)
         IN  [state |-> "table", options |-> AllSkills(df), idx |-> FilterRows(df, sel)]

(***************************************************************************)
(* Text extraction (lines 89-100 and 114-134).                              *)
(***************************************************************************)
Files == {"cv.pdf", "cv.docx"}
Suffix(name) == IF name = "cv.pdf" THEN ".pdf" ELSE ".docx"

\* a text is a sequence of segments, each whitespace or words
SpaceSegs == {" ", "\n\n"}
PageContents == {<<>>, <<" ">>, <<"Ann Lee, Python">>}
Docs == UNION {[1..n -> PageContents] : n \in 0..MaxPages}

\* line 100: "\n\n".join of the pages that have content
RECURSIVE JoinPages(_)
JoinPages(pages) ==
    IF pages = <<>> THEN <<>>
    ELSE IF Len(pages) = 1 THEN pages[1]
    ELSE pages[1] \o <<"\n\n">> \o JoinPages(Tail(pages))

HasContent(page) == page # <<>>

\* lines 89-100: "raise" for another extension, else the joined text
load_resume_text(name, docs) ==
    IF Suffix(name) \in {".pdf", ".docx"}
    THEN [ok |-> TRUE, text |-> JoinPages(SelectSeq(docs, HasContent))]
    ELSE [ok |-> FALSE, text |-> <<>>]

\* str.strip() on a text
RECURSIVE LStripText(_)
LStripText(t) == IF t # <<>> /\ Head(t) \in SpaceSegs THEN LStripText(Tail(t)) ELSE t
RECURSIVE RStripText(_)
RStripText(t) ==
    IF t # <<>> /\ t[Len(t)] \in SpaceSegs
    THEN RStripText(SubSeq(t, 1, Len(t) - 1)) ELSE t

\* a variant without the strip()
IsBlankNoStrip(t) == t = <<>>

\* line 136: not resume_text.strip()
IsBlank(t) == RStripText(LStripText(t)) = <<>>

\* line 118: the NamedTemporaryFile(delete=False, suffix=suffix)
TmpPath(name) == "tmp" \o Suffix(name)

\* a variant that re-raises without removing the file
RemoveOnErrorSkipped(files, path) == files

\* line 127: os.remove(tmp_path) when the loader raised
RemoveOnError(files, path) == files \ {path}

\* lines 131-134: os.remove(tmp_path) after a successful load
RemoveAfterLoad(files, path) == files \ {path}

\* st.button(label): True only in the run started by clicking that button
Button(label, trigger) == trigger = label

(***************************************************************************)
(* Initial state: the page after its first run, no file uploaded.           *)
(***************************************************************************)
InitPage ==
    /\ uploaded_file = <<>>
    /\ pc = "idle"
    /\ tmp_files = {}
    /\ resume_text = <<>>
    /\ session = <<>>
    /\ displayed = <<>>
    /\ msg = "none"
    /\ uncaught = "none"
    /\ llm_called = FALSE
    /\ last_click = "none"
    /\ dialog = <<>>
    /\ selected_skills = {}
    /\ tab2 = RenderTab2(csv, {})

Init ==
    /\ csv = NoFile
    /\ InitPage

(***************************************************************************)
(* Script runs.  Every interaction reruns the whole script.                 *)
(***************************************************************************)
\* a run in which the Convert button is False: lines 108-114 and tab2
RerunPage(trigger) ==
    /\ last_click' = trigger
    /\ displayed' = IF Button("Convert", trigger) THEN displayed ELSE <<>>
    /\ msg' = "none"
    /\ uncaught' = "none"
    /\ tab2' = RenderTab2(csv', selected_skills')
    /\ UNCHANGED <<pc, tmp_files, resume_text, session, llm_called, dialog>>

\* line 110: the user picks a file
ChooseFile ==
    /\ pc = "idle" /\ dialog = <<>>
    /\ \E f \in Files : <<f>> # uploaded_file /\ uploaded_file' = <<f>>
    /\ csv' = csv
    /\ selected_skills' = SelectedAfter(csv, selected_skills, tab2)
    /\ RerunPage("file_uploader")

\* lines 114-120: Convert is clicked; the upload is written to a temp file
ClickConvert ==
    /\ pc = "idle" /\ dialog = <<>>
    /\ uploaded_file # <<>>
    /\ pc' = "extract"
    /\ tmp_files' = tmp_files \cup {TmpPath(uploaded_file[1])}
    /\ last_click' = "Convert"
    /\ displayed' = <<>>
    /\ msg' = "none"
    /\ uncaught' = "none"
    /\ llm_called' = FALSE
    /\ resume_text' = <<>>
    /\ tab2' = NotRun
    /\ UNCHANGED <<uploaded_file, session, csv, dialog, selected_skills>>

\* lines 122-134: load the text; the temp file is removed on both paths
ExtractText ==
    /\ pc = "extract"
    /\ \/ \* the loader raises: st.error, os.remove, raise
          /\ msg' = "err_extract"
          /\ uncaught' = "LoaderError"
          /\ tmp_files' = RemoveOnError(tmp_files, TmpPath(uploaded_file[1]))
          /\ pc' = "idle"
          /\ selected_skills' = {}
          /\ UNCHANGED resume_text
       \/ \E r \in {load_resume_text(uploaded_file[1], docs) : docs \in Docs} :
            /\ r.ok
            /\ resume_text' = r.text
            /\ tmp_files' = RemoveAfterLoad(tmp_files, TmpPath(uploaded_file[1]))
            /\ pc' = "loaded"
            /\ UNCHANGED <<msg, uncaught, selected_skills>>
    /\ UNCHANGED <<uploaded_file, session, displayed, llm_called, last_click, csv,
                   dialog, tab2>>

\* lines 136-314 of the run started by Convert, then tab2
FinishConvert ==
    /\ pc = "loaded"
    /\ pc' = "idle"
    /\ \/ \* line 137, then line 153 reads the unbound name response
          /\ IsBlank(resume_text)
          /\ msg' = "err_empty"
          /\ uncaught' = "NameError"
          /\ selected_skills' = {}
          /\ UNCHANGED <<session, displayed, llm_called, csv, dialog, tab2>>
       \/ \* lines 149-151: the service fails, st.stop()
          /\ ~IsBlank(resume_text)
          /\ llm_called' = TRUE
          /\ msg' = "err_llm"
          /\ selected_skills' = {}
          /\ UNCHANGED <<session, displayed, uncaught, csv, dialog, tab2>>
       \/ \* lines 153-264: display and cache; the Save button is rendered
          \* and is False in this run, so lines 268-314 are skipped
          /\ ~IsBlank(resume_text)
          /\ llm_called' = TRUE
          /\ \E p \in Profiles : \E data \in DataOf(p) :
                /\ displayed' = <<data>>
                /\ session' = <<data>>
                /\ csv' = IF Button("Save to Database", last_click)
                          THEN SaveCsv(csv, <<data>>) ELSE csv
          /\ selected_skills' = SelectedAfter(csv', selected_skills, tab2)
          /\ tab2' = RenderTab2(csv', selected_skills')
          /\ UNCHANGED <<msg, uncaught, dialog>>
    /\ resume_text' = <<>>
    /\ UNCHANGED <<uploaded_file, tmp_files, last_click>>

\* the Save to Database button is clicked: the script reruns with Convert
\* False, so line 114 skips the block that holds lines 267-314
ClickSave ==
    /\ pc = "idle" /\ dialog = <<>>
    /\ displayed # <<>>
    /\ csv' = IF Button("Convert", "Save to Database")
              THEN SaveCsv(csv, session) ELSE csv
    /\ selected_skills' = SelectedAfter(csv', selected_skills, tab2)
    /\ RerunPage("Save to Database")
    /\ UNCHANGED uploaded_file

\* line 344: one option of the multiselect is added or removed
SelectSkills ==
    /\ pc = "idle" /\ dialog = <<>>
    /\ tab2.state = "table"
    /\ \E skill \in tab2.options :
         selected_skills' = IF skill \in selected_skills
                            THEN selected_skills \ {skill}
                            ELSE selected_skills \cup {skill}
    /\ csv' = csv
    /\ RerunPage("multiselect")
    /\ UNCHANGED uploaded_file

Next ==
    \/ ChooseFile
    \/ ClickConvert
    \/ ExtractText
    \/ FinishConvert
    \/ ClickSave

Spec == Init /\ [][Next]_vars

(***************************************************************************)
(* The save handler and the dialog, taken as operations: what lines        *)
(* 267-314 and 66-85 do when they run.                                      *)
(***************************************************************************)
\* lines 267-314 on st.session_state["resume_data"]
SaveToDatabase ==
    /\ pc = "idle" /\ dialog = <<>>
    /\ displayed # <<>>
    /\ last_click' = "Save to Database"
    /\ uncaught' = "none"
    /\ csv' = SaveCsv(csv, session)
    /\ Len(csv'.rows) <= MaxRows
    /\ msg' = SaveOutcome(csv, session)
    /\ \/ \* line 270
          /\ SaveOutcome(csv, session) = "no_data"
          /\ UNCHANGED <<dialog, displayed>>
       \/ \* line 302: show_overwrite_dialog(email, data, CSV_FILE)
          /\ SaveOutcome(csv, session) = "duplicate"
          /\ dialog' = <<[email |-> session[1].email_id, data |-> session[1]]>>
          /\ UNCHANGED displayed
       \/ \* lines 305-314: append, st.rerun()
          /\ SaveOutcome(csv, session) = "saved"
          /\ displayed' = <<>>
          /\ UNCHANGED dialog
    /\ selected_skills' = SelectedAfter(csv', selected_skills, tab2)
    /\ tab2' = RenderTab2(csv', selected_skills')
    /\ UNCHANGED <<uploaded_file, pc, tmp_files, resume_text, session, llm_called>>

\* lines 73-80: Overwrite Existing, st.rerun()
OverwriteExisting ==
    /\ dialog # <<>>
    /\ csv' = OverwriteRows(csv, dialog[1].email, dialog[1].data)
    /\ msg' = "overwritten"
    /\ dialog' = <<>>
    /\ displayed' = <<>>
    /\ last_click' = "Overwrite Existing"
    /\ uncaught' = "none"
    /\ selected_skills' = SelectedAfter(csv', selected_skills, tab2)
    /\ tab2' = RenderTab2(csv', selected_skills')
    /\ UNCHANGED <<uploaded_file, pc, tmp_files, resume_text, session, llm_called>>

\* lines 82-85: Cancel, st.rerun()
Cancel ==
    /\ dialog # <<>>
    /\ msg' = "cancelled"
    /\ dialog' = <<>>
    /\ displayed' = <<>>
    /\ last_click' = "Cancel"
    /\ uncaught' = "none"
    /\ csv' = csv
    /\ selected_skills' = SelectedAfter(csv', selected_skills, tab2)
    /\ tab2' = RenderTab2(csv', selected_skills')
    /\ UNCHANGED <<uploaded_file, pc, tmp_files, resume_text, session, llm_called>>

NextStore ==
    \/ ClickConvert
    \/ ExtractText
    \/ FinishConvert
    \/ SaveToDatabase
    \/ OverwriteExisting
    \/ Cancel

\* a resume has been uploaded; the file is absent
InitStore ==
    /\ csv = NoFile
    /\ uploaded_file = <<"cv.pdf">>
    /\ pc = "idle"
    /\ tmp_files = {}
    /\ resume_text = <<>>
    /\ session = <<>>
    /\ displayed = <<>>
    /\ msg = "none"
    /\ uncaught = "none"
    /\ llm_called = FALSE
    /\ last_click = "file_uploader"
    /\ dialog = <<>>
    /\ selected_skills = {}
    /\ tab2 = RenderTab2(csv, {})

SpecStore == InitStore /\ [][NextStore]_vars

(***************************************************************************)
(* tab2 over a table found on disk: rows saved earlier, or by an earlier    *)
(* version ("handle previous formats"), or edited by hand.                  *)
(***************************************************************************)
SkillCells ==
    { Repr(<<>>),
      Repr(<<"Python", "SQL">>),
      Repr(<<"Go">>),
      <<>>,                                        \* empty cell
      <<LB, Q("Go"), COMMA, SP, Q("SQL")>>,        \* ['Go', 'SQL'
      <<W("Python"), COMMA, SP, W("Go")>>,         \* Python, Go
      <<Q("Go"), COMMA>>,                          \* 'Go',
      <<LB>> }                                     \* [

TableRow(i, cell) ==
    [fullname |-> IF i = 1 THEN "Ann" ELSE "Bob",
     email_id |-> IF i = 1 THEN "a@x.com" ELSE IF i = 2 THEN "b@x.com" ELSE "",
     phone_number |-> "",
     skills |-> cell]

TablesOf(n) == { [i \in 1..n |-> TableRow(i, cells[i])] : cells \in [1..n -> SkillCells] }
Tables == UNION {TablesOf(n) : n \in 0..MaxTableRows}

InitFilter ==
    /\ csv \in {[exists |-> TRUE, rows |-> t] : t \in Tables}
    /\ InitPage

NextFilter ==
    \/ SelectSkills

SpecFilter == InitFilter /\ [][NextFilter]_vars

(***************************************************************************)
(* Properties.                                                              *)
(***************************************************************************)
RowsOf(c, e) == {i \in 1..Len(c.rows) : c.rows[i].email_id = e}

\* a step of the save handler
SaveStep == pc = "idle" /\ dialog = <<>> /\ last_click' = "Save to Database"

\* the profile being saved carries an email address that has a stored row
SavedEmailStored ==
    /\ session # <<>>
    /\ session[1].email_id.k = "str"
    /\ RowsOf(csv, session[1].email_id.v) # {}

C1_Inv ==
    /\ \A e \in Emails : Cardinality(RowsOf(csv, e)) <= 1
    /\ (last_click = "Save to Database" /\ msg = "saved"
            /\ session[1].email_id.k = "str")
         => Cardinality(RowsOf(csv, session[1].email_id.v)) = 1

C1_Step ==
    (SaveStep /\ SavedEmailStored) => (msg' = "duplicate" /\ Len(csv'.rows) = Len(csv.rows))

\* C1: after any sequence of saves, overwrites and cancels from an absent
\* file, the file holds at most one row per email address; a save that
\* inserted left exactly one row for its email, and a save of a profile whose
\* email is already stored (the same profile saved a second time included)
\* adds no row and answers with the duplicate dialog.  (Rows of profiles
\* without an email address have an empty email_id cell and are not counted.)
C1_OneRowPerEmail == []C1_Inv /\ [][C1_Step]_vars

\* the same profile has been saved twice: one row, the second save waits
C1_Witness ==
    /\ last_click = "Save to Database" /\ msg = "duplicate" /\ dialog # <<>>
    /\ session[1].email_id.k = "str"
    /\ \E i \in 1..Len(csv.rows) : csv.rows[i] = RowText(session[1])
    /\ Cardinality(RowsOf(csv, session[1].email_id.v)) = 1

\* C2: a save of a profile whose email has a stored row does not write the
\* file and opens the dialog, and Cancel does not write the file either, so
\* after Cancel the file is what it was before the save.
C2_DuplicateSaveAndCancelKeepStore ==
    [][ /\ (SaveStep /\ SavedEmailStored)
            => (csv' = csv /\ dialog' # <<>> /\ msg' = "duplicate")
        /\ (dialog # <<>> /\ last_click' = "Cancel")
            => (csv' = csv /\ dialog' = <<>>) ]_vars

\* Cancel was chosen for a profile that differs from the stored row
C2_Witness ==
    /\ last_click = "Cancel" /\ msg = "cancelled"
    /\ session[1].email_id.k = "str"
    /\ \E i \in RowsOf(csv, session[1].email_id.v) : csv.rows[i] # RowText(session[1])

OtherRows(c, e) ==
    LET Other(r) == r.email_id # e
    IN  SelectSeq(c.rows, Other)

\* C3: Overwrite for email e keeps the number of rows, leaves exactly one row
\* for e, that row is the new profile's row, and the rows of other emails are
\* unchanged.
C3_OverwriteReplacesOneRow ==
    [][ (dialog # <<>> /\ last_click' = "Overwrite Existing")
          => LET e == dialog[1].email.v
             IN  /\ Len(csv'.rows) = Len(csv.rows)
                 /\ Cardinality(RowsOf(csv', e)) = 1
                 /\ \A i \in RowsOf(csv', e) : csv'.rows[i] = RowText(dialog[1].data)
                 /\ OtherRows(csv', e) = OtherRows(csv, e) ]_vars

\* C4: a click on Save to Database runs the save handler: it ends with a row
\* inserted or with the duplicate dialog.
C4_SaveClickRunsHandler ==
    last_click = "Save to Database"
      => \/ msg = "saved" /\ \E i \in 1..Len(csv.rows) : csv.rows[i] = RowText(session[1])
         \/ msg = "duplicate" /\ dialog # <<>>

\* C5: between Convert runs and while the upload is the same, a displayed
\* profile stays displayed.
C5_ProfileStaysDisplayed ==
    [][ (pc = "idle" /\ pc' = "idle" /\ displayed # <<>>
            /\ uploaded_file' = uploaded_file)
          => displayed' = displayed ]_vars

AllSpace(t) == \A i \in 1..Len(t) : t[i] \in SpaceSegs

\* C6: a Convert whose extracted text is empty or whitespace-only ends with
\* the empty-document error, without a call of the extraction service, with
\* no profile displayed, and changes neither the cached profile nor the file.
C6_BlankTextFailsFast ==
    [][ (pc = "loaded" /\ AllSpace(resume_text))
          => /\ msg' = "err_empty"
             /\ ~llm_called /\ ~llm_called'
             /\ displayed' = <<>>
             /\ session' = session
             /\ csv' = csv ]_vars

\* a blank document was converted after an earlier profile had been cached
C6_Witness ==
    /\ pc = "idle" /\ msg = "err_empty" /\ ~llm_called
    /\ displayed = <<>> /\ session # <<>>

TechUnion(d) ==
    UNION { Range(d.technical_skills[i].programming_languages)
              \cup Range(d.technical_skills[i].libraries_or_frameworks)
              \cup Range(d.technical_skills[i].other_tools) :
            i \in 1..Len(d.technical_skills) }

\* C7: the skills of a converted profile are, without repetition, exactly the
\* skills of all the lists of all its technical_skills entries.
C7_SkillsAreUnionOfAllEntries ==
    session # <<>>
      => /\ Range(session[1].skills) = TechUnion(session[1])
         /\ Cardinality(Range(session[1].skills)) = Len(session[1].skills)

Parsed(cell) == Range(safe_eval_list(ReadSkillsCell(cell)))

Increasing(s) == \A i \in 1..Len(s) : \A j \in 1..Len(s) : i < j => s[i] < s[j]

\* C8: tab2 shows every row when nothing is selected; otherwise exactly the
\* rows whose parsed skills include every selected skill, in file order; and
\* a larger selection never shows a row the smaller one does not.
C8_FilterIsAndOfSelected ==
    tab2.state = "table"
      => LET n == Len(csv.rows)
             supersets == {i \in 1..n : selected_skills \subseteq Parsed(csv.rows[i].skills)}
         IN  /\ selected_skills = {} => tab2.idx = [i \in 1..n |-> i]
             /\ Range(tab2.idx) = supersets
             /\ Increasing(tab2.idx)
             /\ \A S \in SUBSET tab2.options :
                  selected_skills \subseteq S
                    => Range(FilterRows(ReadCsv(csv.rows), S)) \subseteq Range(tab2.idx)

\* two skills are selected; a row with both is shown, a row with one is not
C8_Witness ==
    /\ tab2.state = "table" /\ Cardinality(selected_skills) = 2
    /\ tab2.idx # <<>>
    /\ \E i \in 1..Len(csv.rows) :
         /\ i \notin Range(tab2.idx)
         /\ Parsed(csv.rows[i].skills) \cap selected_skills # {}

\* a cell that is not empty and not a list literal
Corrupt(cell) == cell # <<>> /\ EvalOutcome(cell) # "list"
CorruptRows == {i \in 1..Len(csv.rows) : Corrupt(csv.rows[i].skills)}
ValidSkills(cell) == IF cell = <<>> THEN {} ELSE Range(EvalList(cell))
ValidUnion == UNION {ValidSkills(csv.rows[i].skills) : i \in (1..Len(csv.rows)) \ CorruptRows}
ValidShown ==
    \A i \in (1..Len(csv.rows)) \ CorruptRows :
       i \in Range(tab2.idx) <=> selected_skills \subseteq ValidSkills(csv.rows[i].skills)

FallbackSkills(cell) == Range(CommaList(StripBrackets(cell)))

====
